---- MODULE Spec2Model ----
(***************************************************************************)
(* Bearer-token verification of the ai-chat service                        *)
(* (src/services/ai-chat/app/middleware/auth.py).                          *)
(*                                                                         *)
(* get_current_user is an asyncio coroutine: all calls run on one event    *)
(* loop, so the code between two awaits runs without interleaving.  A call *)
(* is suspended in get_jwks only: in `await client.get(jwks_url)` and when *)
(* it leaves `async with`.  Every action below is one uninterrupted        *)
(* segment of a call.                                                      *)
(***************************************************************************)
EXTENDS Integers, Sequences, FiniteSets, TLC

\* Number of authentication calls that can be in progress at once.
NumCalls == 2

Calls == 1..NumCalls

\* The clock value jwt.decode compares `exp` with (time.time()).
Now == 2

-----------------------------------------------------------------------------
(* Settings (app/config.py)                                                *)

\* The attributes an instance of Settings has: its declared fields and methods.
SettingsAttrs ==
    { "app_name", "environment", "debug", "log_level", "api_version",
      "azure_ad_tenant_id", "azure_ad_client_id", "skip_token_verification",
      "azure_openai_endpoint", "azure_openai_deployment_name", "model_config",
      "get_issuer", "get_issuer_v1", "get_jwks_url" }

\* settings.<name> succeeds iff the instance has the attribute; a pydantic
\* model raises AttributeError for any other name (extra="ignore").
HasAttr(name) == name \in SettingsAttrs

\* The configured values of the deployment under study.
azure_ad_tenant_id == "tenant1"
azure_ad_client_id == "client1"

get_issuer == "https://login.microsoftonline.com/" \o azure_ad_tenant_id \o "/v2.0"
get_issuer_v1 == "https://sts.windows.net/" \o azure_ad_tenant_id \o "/"

-----------------------------------------------------------------------------
(* Tokens                                                                  *)

\* Absent claims / header fields.
Absent == "<absent>"
NoExp == -1

\* The aud claim is a string or a list of strings (RFC 7519).
AudAbsent == [shape |-> "absent", items |-> <<>>]
AudStr(s) == [shape |-> "str", items |-> <<s>>]
AudList(xs) == [shape |-> "list", items |-> xs]

\* The roles and groups claims: absent, a list of strings, or JSON null.
NoList == [shape |-> "absent", items |-> <<>>]
StrList(xs) == [shape |-> "list", items |-> xs]
Null == [shape |-> "null", items |-> <<>>]

\* The values each part of a token ranges over.
TokenDomain ==
    [ form  |-> {"ok", "missing_segment"},
      alg   |-> {"RS256", "HS256"},
      kid   |-> {Absent, "k1", "k2"},
      sig   |-> {"m1", "m2", "forged"},
      exp   |-> {NoExp, Now - 1, Now, Now + 1},
      aud   |-> {AudAbsent, AudStr("client1"), AudStr("other-client"),
                 AudList(<<"client1">>)},
      iss   |-> {Absent, get_issuer, get_issuer_v1,
                 "https://login.microsoftonline.com/tenant2/v2.0"},
      oid   |-> {Absent, "u1"},
      email |-> {Absent, "", "a@b.com"},
      preferred_username |-> {Absent, "a@corp"},
      name  |-> {Absent, "Ann"},
      tid   |-> {Absent, "tenant1"},
      roles |-> {NoList, StrList(<<"admin">>), Null},
      groups |-> {NoList, StrList(<<"g1">>)},
      iat   |-> {NoExp, Now - 1, 86400 + Now} ]

TokenFields == DOMAIN TokenDomain

\* The token of the spec's scenario: header {"kid": "k1"}, signed by the key
\* whose material is m1, all claims as configured.
BaseToken ==
    [ form |-> "ok", alg |-> "RS256", kid |-> "k1", sig |-> "m1",
      exp |-> Now + 1, aud |-> AudStr("client1"), iss |-> get_issuer,
      oid |-> "u1", email |-> "a@b.com", preferred_username |-> Absent,
      name |-> Absent, tid |-> Absent, roles |-> NoList, groups |-> NoList,
      iat |-> NoExp ]

\* What a part ranges over when the parts in S vary and the others are the
\* scenario's.
PartValues(S, f) == IF f \in S THEN TokenDomain[f] ELSE {BaseToken[f]}

TokensVarying(S) ==
    [ form  : PartValues(S, "form"),
      alg   : PartValues(S, "alg"),
      kid   : PartValues(S, "kid"),
      sig   : PartValues(S, "sig"),
      exp   : PartValues(S, "exp"),
      aud   : PartValues(S, "aud"),
      iss   : PartValues(S, "iss"),
      oid   : PartValues(S, "oid"),
      email : PartValues(S, "email"),
      preferred_username : PartValues(S, "preferred_username"),
      name  : PartValues(S, "name"),
      tid   : PartValues(S, "tid"),
      roles : PartValues(S, "roles"),
      groups : PartValues(S, "groups"),
      iat   : PartValues(S, "iat") ]

\* The parts of a token that verification reads.
CheckedParts == { "form", "alg", "kid", "sig", "exp", "aud", "iss" }

\* The claims of a token's body that the projection reads.
ProjectedClaims ==
    { "exp", "aud", "oid", "email", "preferred_username", "name", "tid", "roles",
      "groups", "iat" }

\* Every token that differs from the scenario's token in at most two of the
\* parts verification reads, or in one claim the projection reads.
Tokens ==
    UNION ( { TokensVarying({f1, f2}) : f1 \in CheckedParts, f2 \in CheckedParts }
            \cup { TokensVarying({f}) : f \in ProjectedClaims } )

\* The calls that run beside the first one present the scenario's token.
ProbeTokens == { BaseToken }

CallTokens(c) == IF c = 1 THEN Tokens ELSE ProbeTokens

\* Every combination of the projected claims, in the scenario's token.
ClaimTokens(c) == IF c = 1 THEN TokensVarying(ProjectedClaims) ELSE ProbeTokens

\* Tokens naming k1, naming k2 and naming no key on the first call.
LiveTokens(c) == IF c = 1 THEN TokensVarying({"kid"}) ELSE ProbeTokens

NoToken == [BaseToken EXCEPT !.form = "none"]

-----------------------------------------------------------------------------
(* Exceptions and the value a step of the pipeline yields                  *)

\* Subclasses of jwt.InvalidTokenError that the pipeline can raise.
InvalidTokenErrors ==
    { "DecodeError", "InvalidAlgorithmError", "InvalidSignatureError",
      "ExpiredSignatureError", "MissingRequiredClaimError", "InvalidAudienceError" }

\* Subclasses of httpx.HTTPError: transport errors, timeouts, raise_for_status.
HTTPErrors == { "ConnectError", "ReadTimeout", "HTTPStatusError" }

Ok(v) == [ok |-> TRUE, exc |-> "", http |-> 0, detail |-> "", stage |-> "", val |-> v]

Raise(cls, stage, v) ==
    [ok |-> FALSE, exc |-> cls, http |-> 0, detail |-> "", stage |-> stage, val |-> v]

\* raise HTTPException(status_code=status, detail=detail)
RaiseHTTP(status, detail, stage, v) ==
    [ok |-> FALSE, exc |-> "HTTPException", http |-> status, detail |-> detail,
     stage |-> stage, val |-> v]

-----------------------------------------------------------------------------
(* Key selection: get_public_key                                           *)

\* RSAAlgorithm.from_jwk: the RSA public key of a JWK, or InvalidKeyError.
from_jwk(jwk) ==
    IF jwk.mat = "unconvertible"
    THEN Raise("InvalidKeyError", "key", "")
    ELSE Ok(jwk.mat)

get_public_key(token, jwks) ==
    IF token.form # "ok"
    THEN Raise("DecodeError", "header", "")
    ELSE IF token.kid \in {Absent, ""}
    THEN RaiseHTTP(401, "Token missing 'kid' in header", "header", "")
    ELSE IF token.kid \notin DOMAIN jwks
    THEN RaiseHTTP(401, "Public key not found for kid", "key", "")
    ELSE from_jwk(jwks[token.kid])

-----------------------------------------------------------------------------
(* jwt.decode as get_current_user calls it                                 *)

Claims(token) ==
    [ exp |-> token.exp, aud |-> token.aud, iss |-> token.iss, oid |-> token.oid,
      email |-> token.email, preferred_username |-> token.preferred_username,
      name |-> token.name, tid |-> token.tid, roles |-> token.roles,
      groups |-> token.groups, iat |-> token.iat ]

NoClaims == Claims(NoToken)

\* jwt.decode(token, options={"verify_signature": False, "verify_exp": False},
\*            algorithms=["RS256"]): only the token's form is checked.
decode_unverified(token) ==
    IF token.form # "ok"
    THEN Raise("DecodeError", "decode", NoClaims)
    ELSE Ok(Claims(token))

\* jwt.decode(token, public_key, algorithms=["RS256"], audience=audience,
\*            options={verify_signature, verify_exp, verify_aud: True}):
\* algorithm allow-list, signature, exp, aud, in PyJWT's order.
decode_verified(token, public_key, audience) ==
    IF token.form # "ok"
    THEN Raise("DecodeError", "decode", NoClaims)
    ELSE IF token.alg \notin {"RS256"}
    THEN Raise("InvalidAlgorithmError", "decode", NoClaims)
    ELSE IF token.sig # public_key
    THEN Raise("InvalidSignatureError", "decode", NoClaims)
    ELSE IF token.exp # NoExp /\ token.exp <= Now
    THEN Raise("ExpiredSignatureError", "decode", NoClaims)
    ELSE IF token.aud.shape = "absent"
    THEN Raise("MissingRequiredClaimError", "decode", NoClaims)
    ELSE IF \A i \in DOMAIN token.aud.items : token.aud.items[i] # audience
    THEN Raise("InvalidAudienceError", "decode", NoClaims)
    ELSE Ok(Claims(token))

-----------------------------------------------------------------------------
(* Identity projection: UserClaims(...).to_user()                          *)

NoUser ==
    [ id |-> "", email |-> "", name |-> "", preferred_username |-> "",
      tenant_id |-> "", roles |-> <<>>, groups |-> <<>>,
      issued_at |-> [day |-> 0, second |-> 0],
      expires_at |-> [day |-> 0, second |-> 0] ]

\* a or b, for Optional[str] values
OrElse(a, b) == IF a = Absent \/ a = "" THEN b ELSE a

\* datetime.fromtimestamp(t): the date and time of day t seconds after the
\* epoch (days since 1970-01-01, second of the day; the zone is UTC).
fromtimestamp(t) == [day |-> t \div 86400, second |-> t % 86400]

\* Lines 137-149: the UserClaims fields, decoded.get(name, default).
user_claims(claims) ==
    [ oid |-> IF claims.oid = Absent THEN "unknown" ELSE claims.oid,
      email |-> claims.email,
      preferred_username |-> claims.preferred_username,
      name |-> claims.name,
      tid |-> IF claims.tid = Absent THEN "unknown" ELSE claims.tid,
      roles |-> IF claims.roles.shape = "absent" THEN StrList(<<>>) ELSE claims.roles,
      groups |-> IF claims.groups.shape = "absent" THEN StrList(<<>>) ELSE claims.groups,
      aud |-> IF claims.aud.shape = "absent" THEN AudStr("") ELSE claims.aud,
      iat |-> IF claims.iat = NoExp THEN 0 ELSE claims.iat,
      exp |-> IF claims.exp = NoExp THEN 0 ELSE claims.exp ]

\* Mutation: the fallback of email is dropped.
to_user_no_fallback(uc) ==
    [ id |-> uc.oid,
      email |-> OrElse(uc.email, ""),
      name |-> OrElse(uc.name, ""),
      preferred_username |-> OrElse(uc.preferred_username, ""),
      tenant_id |-> uc.tid,
      roles |-> uc.roles.items,
      groups |-> uc.groups.items,
      issued_at |-> fromtimestamp(uc.iat),
      expires_at |-> fromtimestamp(uc.exp) ]

\* UserClaims.to_user, on validated fields.
to_user(uc) ==
    [ id |-> uc.oid,
      email |-> OrElse(uc.email, OrElse(uc.preferred_username, "")),
      name |-> OrElse(uc.name, ""),
      preferred_username |-> OrElse(uc.preferred_username, ""),
      tenant_id |-> uc.tid,
      roles |-> uc.roles.items,
      groups |-> uc.groups.items,
      issued_at |-> fromtimestamp(uc.iat),
      expires_at |-> fromtimestamp(uc.exp) ]

\* pydantic's validation of UserClaims: aud is a str, roles and groups are
\* lists of str.
Validates(uc) ==
    /\ uc.aud.shape = "str"
    /\ uc.roles.shape = "list"
    /\ uc.groups.shape = "list"

\* UserClaims(...) validates its fields, then to_user().
project(claims) ==
    IF ~Validates(user_claims(claims))
    THEN Raise("ValidationError", "project", NoUser)
    ELSE Ok(to_user(user_claims(claims)))

-----------------------------------------------------------------------------
(* The body of get_current_user's try block once the key set is at hand    *)

AcceptedIssuers == { get_issuer, get_issuer_v1 }

check_issuer(claims) ==
    IF (IF claims.iss = Absent THEN "" ELSE claims.iss) \notin AcceptedIssuers
    THEN RaiseHTTP(401, "Invalid issuer", "issuer", NoUser)
    ELSE project(claims)

\* Mutation: production mode decodes the token as development mode does.
verify_with_unchecked(token, jwks) ==
    LET decoded == decode_unverified(token) IN
    IF ~decoded.ok THEN [decoded EXCEPT !.val = NoUser]
    ELSE project(decoded.val)

\* Production mode, lines 108-153.
verify_with(token, jwks) ==
    LET key == get_public_key(token, jwks) IN
    IF ~key.ok THEN [key EXCEPT !.val = NoUser]
    ELSE IF ~HasAttr("azure_client_id")
    THEN Raise("AttributeError", "decode", NoUser)
    ELSE LET decoded == decode_verified(token, key.val, azure_ad_client_id) IN
         IF ~decoded.ok THEN [decoded EXCEPT !.val = NoUser]
         ELSE check_issuer(decoded.val)

\* Development mode, lines 92-99 and 136-153.
trusted_decode(token) ==
    LET decoded == decode_unverified(token) IN
    IF ~decoded.ok THEN [decoded EXCEPT !.val = NoUser]
    ELSE project(decoded.val)

-----------------------------------------------------------------------------
(* The except clauses of get_current_user, in order                        *)

NoOut ==
    [status |-> 0, detail |-> "", raised |-> "", http |-> 0, stage |-> "",
     user |-> NoUser]

Response(status, detail, r) ==
    [status |-> status, detail |-> detail, raised |-> r.exc, http |-> r.http,
     stage |-> r.stage, user |-> NoUser]

handle(r) ==
    IF r.ok
    THEN [status |-> 200, detail |-> "", raised |-> "", http |-> 0, stage |-> "",
          user |-> r.val]
    ELSE IF r.exc = "ExpiredSignatureError"
    THEN Response(401, "Token has expired", r)
    ELSE IF r.exc = "InvalidAudienceError"
    THEN IF HasAttr("azure_client_id")
         THEN Response(401, "Invalid token audience", r)
         ELSE Response(500, "Internal Server Error", r)
    ELSE IF r.exc \in InvalidTokenErrors
    THEN Response(401, "Invalid token", r)
    ELSE IF r.exc \in HTTPErrors
    THEN Response(500, "Failed to validate token - could not fetch JWKS", r)
    ELSE Response(500, "Authentication error", r)


-----------------------------------------------------------------------------
(* The key-set endpoint and get_jwks                                       *)

\* A JWK object of the "keys" list, and an element that is not an object.
Jwk(kid, mat) == [shape |-> "dict", kid |-> kid, mat |-> mat]
NotAJwk == [shape |-> "str", kid |-> Absent, mat |-> ""]

JwksObject(keys) == [shape |-> "object", keys |-> keys]
JwksArray == [shape |-> "array", keys |-> <<>>]

\* The JSON bodies the endpoint answers a GET with (status 2xx).
Payloads ==
    << JwksObject(<< Jwk("k1", "m1") >>),
       JwksObject(<< Jwk("k2", "m1") >>),
       JwksObject(<< Jwk("k1", "m2"), Jwk("k2", "unconvertible") >>),
       JwksObject(<< Jwk("k1", "m2"), NotAJwk, Jwk("k2", "m1") >>),
       JwksObject(<< Jwk(Absent, "m1"), Jwk("", "m1"), Jwk("k1", "m1") >>),
       JwksObject(<< >>),
       JwksArray >>

\* What client.get / raise_for_status / response.json() can raise.
FetchErrors == HTTPErrors \cup {"JSONDecodeError"}

EmptyCache == << >>

\* Mutation: the loop indexes every entry, whatever its kid.
RECURSIVE IndexKeysNoSkip(_, _, _)
IndexKeysNoSkip(cache, keys, i) ==
    IF i > Len(keys) THEN [ok |-> TRUE, cache |-> cache]
    ELSE IF keys[i].shape # "dict" THEN [ok |-> FALSE, cache |-> cache]
    ELSE IndexKeysNoSkip((keys[i].kid :> keys[i]) @@ cache, keys, i + 1)

\* Lines 34-37: the loop over jwks.get("keys", []), writing into the cache in
\* place; an entry whose kid is missing or empty is passed over (`if kid`);
\* key.get on an element that is no object raises AttributeError and ends the
\* loop with the entries written so far.
RECURSIVE IndexKeys(_, _, _)
IndexKeys(cache, keys, i) ==
    IF i > Len(keys) THEN [ok |-> TRUE, cache |-> cache]
    ELSE IF keys[i].shape # "dict" THEN [ok |-> FALSE, cache |-> cache]
    ELSE IF keys[i].kid \in {Absent, ""} THEN IndexKeys(cache, keys, i + 1)
    ELSE IndexKeys((keys[i].kid :> keys[i]) @@ cache, keys, i + 1)

-----------------------------------------------------------------------------
(* The chat service (services/chat.py)                                     *)

\* The ids of the Users that get_current_user hands to the endpoints: the oid
\* claim, or "unknown".
UserIds == { "u1", "unknown" }

\* The messages users send, and the longest thread followed, in turns.
ChatTexts == { "hi", "bye" }
MaxTurns == 2

\* agent.run(message, thread=thread): the thread gains the user's message and
\* the agent's answer.
Turn(m) == << [role |-> "user", content |-> m],
              [role |-> "assistant", content |-> "re: " \o m] >>

NoThreads == << >>

\* ChatService._get_or_create_thread: the user's stored thread, or a new one.
get_or_create_thread(threads, user_id) ==
    IF user_id \in DOMAIN threads THEN threads[user_id] ELSE << >>

NotSystem(msg) == msg.role # "system"

\* ChatService.get_history: the thread's messages but the system ones.
get_history(threads, user_id) ==
    IF user_id \notin DOMAIN threads
    THEN << >>
    ELSE SelectSeq(get_or_create_thread(threads, user_id), NotSystem)

\* ChatService.clear_history: the user's thread is deleted if there is one.
clear_history(threads, user_id) ==
    IF user_id \in DOMAIN threads
    THEN [k \in DOMAIN threads \ {user_id} |-> threads[k]]
    ELSE threads

NotRunning == [busy |-> FALSE, thread |-> << >>]

NoResponse == [op |-> "", user |-> "", status |-> 0, detail |-> ""]

-----------------------------------------------------------------------------
(* State                                                                   *)

VARIABLES
    jwks_cache,               \* _jwks_cache: kid -> JWK
    skip_token_verification,  \* settings.skip_token_verification
    calls,                    \* the get_current_user calls in progress
    user_threads,             \* chat_service.user_threads: user id -> thread
    running,                  \* per user, the thread of a chat awaiting its save
    response                  \* the last response of a chat endpoint

\* The state of the chat service and of its endpoints.
chat_vars == <<user_threads, running, response>>

vars == <<jwks_cache, skip_token_verification, calls, chat_vars>>

\* pc: "idle" (no call), "fetching" (suspended in await client.get),
\* "closing" (suspended leaving `async with`), "done" (returned or raised).
\* fetches: GETs this call issued.  miss: the token's kid was not in the cache
\* when the call asked for the key set.  resp: the payload whose keys the call
\* has cached, while it is closing.  out: what the caller got.
IdleCall ==
    [pc |-> "idle", token |-> NoToken, fetches |-> 0, miss |-> FALSE, resp |-> 0,
     out |-> NoOut]

Misses(token, cache) ==
    token.form = "ok" /\ token.kid # Absent /\ token.kid \notin DOMAIN cache

Init ==
    /\ jwks_cache = EmptyCache
    /\ skip_token_verification \in BOOLEAN
    /\ calls = [c \in Calls |-> IdleCall]
    /\ user_threads = NoThreads
    /\ running = [u \in UserIds |-> NotRunning]
    /\ response = NoResponse

\* Line 82: no credentials, raised before the try block.
CallNoCredentials(c) ==
    /\ calls[c].pc = "idle"
    /\ calls' = [calls EXCEPT ![c] =
          [IdleCall EXCEPT !.pc = "done",
             !.out = [NoOut EXCEPT !.status = 401,
                                   !.detail = "Missing authorization header",
                                   !.raised = "HTTPException", !.http = 401,
                                   !.stage = "credentials"]]]
    /\ UNCHANGED <<jwks_cache, skip_token_verification, chat_vars>>

\* Lines 92-99, 136-153: development mode, on a token of `tokens`.
TrustedDev(c, tokens) ==
    /\ calls[c].pc = "idle"
    /\ skip_token_verification
    /\ \E token \in tokens :
         calls' = [calls EXCEPT ![c] =
            [IdleCall EXCEPT !.pc = "done", !.token = token,
                             !.out = handle(trusted_decode(token))]]
    /\ UNCHANGED <<jwks_cache, skip_token_verification, chat_vars>>

\* Mutation: development mode asks get_jwks for the key set first.
CallTrustedDevFetching(c) ==
    /\ calls[c].pc = "idle"
    /\ skip_token_verification
    /\ \E token \in CallTokens(c) :
         calls' = [calls EXCEPT ![c] =
            [IdleCall EXCEPT !.pc = "fetching", !.token = token, !.fetches = 1]]
    /\ UNCHANGED <<jwks_cache, skip_token_verification, chat_vars>>

CallTrustedDev(c) == TrustedDev(c, CallTokens(c))

\* The same call on every combination of the claims the projection reads.
ProjectClaims(c) == TrustedDev(c, ClaimTokens(c))

\* Lines 105 and 22-23: production mode, the cache holds keys; get_jwks
\* returns it without suspending and the call runs to its end.
Cached(c, tokens) ==
    /\ calls[c].pc = "idle"
    /\ ~skip_token_verification
    /\ DOMAIN jwks_cache # {}
    /\ \E token \in tokens :
         calls' = [calls EXCEPT ![c] =
            [IdleCall EXCEPT !.pc = "done", !.token = token,
                             !.miss = Misses(token, jwks_cache),
                             !.out = handle(verify_with(token, jwks_cache))]]
    /\ UNCHANGED <<jwks_cache, skip_token_verification, chat_vars>>

CallCached(c) == Cached(c, CallTokens(c))

\* Mutation: get_jwks issues the GET whatever the cache holds.
CallFetchAlways(c) ==
    /\ calls[c].pc = "idle"
    /\ ~skip_token_verification
    /\ \E token \in CallTokens(c) :
         calls' = [calls EXCEPT ![c] =
            [IdleCall EXCEPT !.pc = "fetching", !.token = token, !.fetches = 1,
                             !.miss = Misses(token, jwks_cache)]]
    /\ UNCHANGED <<jwks_cache, skip_token_verification, chat_vars>>

\* Lines 105 and 22-29: production mode, the cache is empty; get_jwks issues
\* the GET and the call is suspended until the answer.
Fetch(c, tokens) ==
    /\ calls[c].pc = "idle"
    /\ ~skip_token_verification
    /\ DOMAIN jwks_cache = {}
    /\ \E token \in tokens :
         calls' = [calls EXCEPT ![c] =
            [IdleCall EXCEPT !.pc = "fetching", !.token = token, !.fetches = 1,
                             !.miss = Misses(token, jwks_cache)]]
    /\ UNCHANGED <<jwks_cache, skip_token_verification, chat_vars>>

CallFetch(c) == Fetch(c, CallTokens(c))

\* Lines 29-31 raise: the GET fails or times out, the status is no success,
\* or the body is no JSON.
FetchError(c) ==
    /\ calls[c].pc = "fetching"
    /\ \E e \in FetchErrors :
         calls' = [calls EXCEPT ![c].pc = "done",
                                ![c].out = handle(Raise(e, "fetch", NoUser))]
    /\ UNCHANGED <<jwks_cache, skip_token_verification, chat_vars>>

\* Lines 31-40: the GET is answered with a JSON body; the keys are written
\* into the cache.  Leaving `async with` awaits the client's close, so the
\* call is suspended once more before get_jwks returns.
FetchResponse(c) ==
    /\ calls[c].pc = "fetching"
    /\ \E p \in DOMAIN Payloads :
         LET payload == Payloads[p]
             indexed == IndexKeys(jwks_cache, payload.keys, 1)
         IN  IF payload.shape # "object"
             THEN /\ jwks_cache' = jwks_cache
                  /\ calls' = [calls EXCEPT ![c].pc = "done",
                        ![c].out = handle(Raise("AttributeError", "fetch", NoUser))]
             ELSE /\ jwks_cache' = indexed.cache
                  /\ calls' = [calls EXCEPT
                        ![c].resp = IF indexed.ok THEN p ELSE 0,
                        ![c].pc = IF indexed.ok THEN "closing" ELSE "done",
                        ![c].out =
                            IF indexed.ok THEN NoOut
                            ELSE handle(Raise("AttributeError", "fetch", NoUser))]
    /\ UNCHANGED <<skip_token_verification, chat_vars>>

\* Mutation: the client's close never completes.
FetchClosedNever(c) ==
    /\ calls[c].pc = "closing"
    /\ FALSE
    /\ UNCHANGED vars

\* Lines 40 and 108-153: get_jwks returns the cache object and the call runs
\* to its end against what the cache holds now.
FetchClosed(c) ==
    /\ calls[c].pc = "closing"
    /\ calls' = [calls EXCEPT ![c].pc = "done", ![c].resp = 0,
                    ![c].out = handle(verify_with(calls[c].token, jwks_cache))]
    /\ UNCHANGED <<jwks_cache, skip_token_verification, chat_vars>>

\* The caller has the result; the slot serves the next request.
Return(c) ==
    /\ calls[c].pc = "done"
    /\ calls' = [calls EXCEPT ![c] = IdleCall]
    /\ UNCHANGED <<jwks_cache, skip_token_verification, chat_vars>>

Next ==
    \E c \in Calls :
        \/ CallNoCredentials(c)
        \/ CallTrustedDev(c)
        \/ CallCached(c)
        \/ CallFetch(c)
        \/ FetchError(c)
        \/ FetchResponse(c)
        \/ FetchClosed(c)
        \/ Return(c)

Spec == Init /\ [][Next]_vars

-----------------------------------------------------------------------------
(* The chat endpoints (routers/chat.py), called with the User of a          *)
(* get_current_user that returned one                                       *)

\* POST /chat up to the await of agent.run: the thread is loaded and the
\* agent runs on it.
SendMessage(u) ==
    /\ ~running[u].busy
    /\ Len(get_or_create_thread(user_threads, u)) < 2 * MaxTurns
    /\ \E m \in ChatTexts :
         running' = [running EXCEPT ![u] =
            [busy |-> TRUE,
             thread |-> get_or_create_thread(user_threads, u) \o Turn(m)]]
    /\ UNCHANGED <<jwks_cache, skip_token_verification, calls, user_threads,
                   response>>

\* POST /chat from _save_thread on: the thread is stored and the answer
\* returned.
SaveThread(u) ==
    /\ running[u].busy
    /\ user_threads' = (u :> running[u].thread) @@ user_threads
    /\ running' = [running EXCEPT ![u] = NotRunning]
    /\ response' = [op |-> "chat", user |-> u, status |-> 200,
                    detail |-> running[u].thread[Len(running[u].thread)].content]
    /\ UNCHANGED <<jwks_cache, skip_token_verification, calls>>

\* GET /chat/history: chat_service.get_history(...) is called without await;
\* the coroutine never runs and is no List[ChatMessage] to answer with.
GetHistory(u) ==
    /\ response' = [op |-> "history", user |-> u, status |-> 500,
                    detail |-> "Internal Server Error"]
    /\ UNCHANGED <<jwks_cache, skip_token_verification, calls, user_threads,
                   running>>

\* DELETE /chat/history: chat_service.clear_history(...) is called without
\* await; the coroutine never runs, and the endpoint answers.
ClearHistory(u) ==
    /\ response' = [op |-> "clear", user |-> u, status |-> 200,
                    detail |-> "Chat history cleared"]
    /\ UNCHANGED <<jwks_cache, skip_token_verification, calls, user_threads,
                   running>>

\* The chat endpoints alone, in development mode (where get_current_user
\* returns Users).
InitChat == Init /\ skip_token_verification

NextChat ==
    \E u \in UserIds :
        SendMessage(u) \/ SaveThread(u) \/ GetHistory(u) \/ ClearHistory(u)

SpecChat == InitChat /\ [][NextChat]_vars

\* The scheduling of a suspended call.  httpx.AsyncClient() is built with
\* httpx's default timeout, so the GET of line 29 ends with an answer or with
\* an exception (a timeout is an httpx.HTTPError); the event loop resumes every
\* task whose await has completed.
Fairness ==
    \A c \in Calls :
        /\ WF_vars(FetchError(c) \/ FetchResponse(c))
        /\ WF_vars(FetchClosed(c))

\* The calls on every path through get_jwks, which does not read the token.
NextLive ==
    \E c \in Calls :
        \/ CallNoCredentials(c)
        \/ TrustedDev(c, LiveTokens(c))
        \/ Cached(c, LiveTokens(c))
        \/ Fetch(c, LiveTokens(c))
        \/ FetchError(c)
        \/ FetchResponse(c)
        \/ FetchClosed(c)
        \/ Return(c)

SpecLive == Init /\ [][NextLive]_vars /\ Fairness

\* Development mode alone, over every combination of claims.
InitClaims == Init /\ skip_token_verification

NextClaims == \E c \in Calls : ProjectClaims(c) \/ Return(c)

SpecClaims == InitClaims /\ [][NextClaims]_vars

-----------------------------------------------------------------------------
(* Properties                                                              *)

Done(c) == calls[c].pc = "done"

\* The step in which call c returns or raises.
Completes(c) == calls[c].pc # "done" /\ calls'[c].pc = "done"

\* The step in which call c's fetch succeeds: the response is indexed.
FetchSucceeds(c) == calls[c].pc = "fetching" /\ calls'[c].pc = "closing"

\* The step in which call c's fetch fails.
FetchFails(c) == calls[c].pc = "fetching" /\ calls'[c].pc = "done"

\* The token's kid names a key of jwks whose material converts to a public key.
KeyResolves(token, jwks) ==
    /\ token.form = "ok"
    /\ token.kid # Absent
    /\ token.kid \in DOMAIN jwks
    /\ jwks[token.kid].mat # "unconvertible"

SignatureVerifies(token, jwks) ==
    /\ KeyResolves(token, jwks)
    /\ token.alg = "RS256"
    /\ token.sig = jwks[token.kid].mat

Unexpired(token) == token.exp = NoExp \/ token.exp > Now

AudienceMatches(token) == token.aud = AudStr("client1")

IssuerAccepted(token) ==
    token.iss \in { "https://login.microsoftonline.com/tenant1/v2.0",
                    "https://sts.windows.net/tenant1/" }

PassesEveryCheck(token, jwks) ==
    /\ SignatureVerifies(token, jwks)
    /\ Unexpired(token)
    /\ AudienceMatches(token)
    /\ IssuerAccepted(token)

\* C1: in production mode no User comes out of a call whose token fails any
\* check against the key set the call looked its kid up in: the kid resolves
\* to a key, the RS256 signature verifies under it, exp is not past, aud is
\* the client id, iss is one of the two accepted issuers.
C1_UserOnlyIfVerified ==
    [][ \A c \in Calls :
          ( /\ Completes(c) /\ ~skip_token_verification
            /\ ~PassesEveryCheck(calls'[c].token, jwks_cache') )
          => /\ calls'[c].out.status # 200
             /\ calls'[c].out.user = NoUser ]_vars

\* C1's case: a production-mode call has ended on a token whose signature does
\* not verify under the cached key it names, and no User came out of it.
C1_Witness ==
    \E c \in Calls :
        /\ Done(c) /\ ~skip_token_verification
        /\ calls[c].token = [BaseToken EXCEPT !.sig = "forged"]
        /\ KeyResolves(calls[c].token, jwks_cache)
        /\ calls[c].out.status # 200

\* C2: every production-mode call whose token's kid was not in the cached key
\* set when the call asked for the key set issues exactly one GET, and when the
\* kid is not in the key set it then looks it up in, the call raises the
\* key-not-found failure.
C2_OneFetchPerMiss ==
    [][ \A c \in Calls :
          (Completes(c) /\ ~skip_token_verification /\ calls'[c].miss)
            => /\ calls'[c].fetches = 1
               /\ ( /\ calls'[c].out.stage # "fetch"
                    /\ calls'[c].token.kid \notin DOMAIN jwks_cache' )
                    => /\ calls'[c].out.stage = "key"
                       /\ calls'[c].out.raised = "HTTPException"
                       /\ calls'[c].out.http = 401 ]_vars

\* A failure the code raises as a classified token failure: a PyJWT
\* InvalidTokenError or an HTTPException(401).
ClassifiedFailure(out) ==
    \/ out.raised \in InvalidTokenErrors
    \/ out.raised = "HTTPException" /\ out.http = 401

\* C3: every classified token failure reaches the caller as a 401, and a 500
\* comes only from a failed key-set fetch or an unexpected internal fault.
C3_ClassifiedFailuresAre401 ==
    \A c \in Calls :
        Done(c) =>
          /\ ClassifiedFailure(calls[c].out) => calls[c].out.status = 401
          /\ calls[c].out.status = 500 => ~ClassifiedFailure(calls[c].out)

\* C4: in production mode a token whose exp is strictly in the past, naming a
\* key of the key set, fails with 'Token has expired' whether or not its
\* signature verifies.
C4_ExpiredTokenFailsExpired ==
    [][ \A c \in Calls :
          ( /\ Completes(c) /\ ~skip_token_verification
            /\ calls'[c].out.stage # "fetch"
            /\ KeyResolves(calls'[c].token, jwks_cache')
            /\ calls'[c].token.alg = "RS256"
            /\ calls'[c].token.exp # NoExp /\ calls'[c].token.exp < Now )
          => /\ calls'[c].out.status = 401
             /\ calls'[c].out.detail = "Token has expired" ]_vars

\* The kid-indexed entries of one response, on their own.
Indexed(p) == IndexKeys(EmptyCache, Payloads[p].keys, 1).cache

\* C5: when a fetch completes successfully the cached key set is exactly the
\* kid-indexed entries of that fetch's response (replaced, not merged).
C5_FetchReplacesCache ==
    [][ \A c \in Calls :
          FetchSucceeds(c) => jwks_cache' = Indexed(calls'[c].resp) ]_vars

\* C6: a call whose key-set fetch fails (network error, timeout, non-success
\* status, malformed payload) ends with the 'could not fetch JWKS' 500 error
\* and has issued one GET only.
C6_FetchFailureIsDependencyUnavailable ==
    \A c \in Calls :
        (Done(c) /\ calls[c].out.stage = "fetch")
          => /\ calls[c].out.status = 500
             /\ calls[c].out.detail = "Failed to validate token - could not fetch JWKS"
             /\ calls[c].fetches = 1

\* C7: a fetch that fails at any point leaves the cached key set as it was
\* before the fetch started.
C7_FailedFetchLeavesCache ==
    [][ \A c \in Calls :
          FetchFails(c) => jwks_cache' = jwks_cache ]_vars

\* C8: in production mode every token that passes every check against the key
\* set is accepted, and the User carries the body's oid as id and the body's
\* email as email.
C8_ValidTokenAccepted ==
    [][ \A c \in Calls :
          ( /\ Completes(c) /\ ~skip_token_verification
            /\ calls'[c].out.stage # "fetch"
            /\ PassesEveryCheck(calls'[c].token, jwks_cache')
            /\ calls'[c].token.oid # Absent /\ calls'[c].token.email # Absent )
          => /\ calls'[c].out.status = 200
             /\ calls'[c].out.user.id = calls'[c].token.oid
             /\ calls'[c].out.user.email = calls'[c].token.email ]_vars

\* C9: in production mode a token that passes the signature, expiry and
\* audience checks is accepted if and only if its iss is one of the two
\* accepted issuer strings of the configured tenant.
C9_AcceptedIffIssuer ==
    [][ \A c \in Calls :
          ( /\ Completes(c) /\ ~skip_token_verification
            /\ calls'[c].out.stage # "fetch"
            /\ SignatureVerifies(calls'[c].token, jwks_cache')
            /\ Unexpired(calls'[c].token)
            /\ AudienceMatches(calls'[c].token) )
          => (calls'[c].out.status = 200 <=> IssuerAccepted(calls'[c].token)) ]_vars

\* C10: in development mode every well-formed token is accepted, whatever its
\* exp and signature, with the identity taken from the decoded body; a
\* malformed token is rejected with a 401.
C10_TrustedDevAccepts ==
    \A c \in Calls :
        (Done(c) /\ skip_token_verification /\ calls[c].out.stage # "credentials")
          => IF calls[c].token.form = "ok"
             THEN /\ calls[c].out.status = 200
                  /\ calls[c].out.user.id =
                       (IF calls[c].token.oid = Absent THEN "unknown"
                        ELSE calls[c].token.oid)
                  /\ calls[c].out.user.expires_at.second =
                       (IF calls[c].token.exp = NoExp THEN 0 ELSE calls[c].token.exp)
             ELSE calls[c].out.status = 401

\* C11: a call whose claims reached the projection (they passed verification
\* or were decoded in development mode) produces a User, whatever claims are
\* absent and whatever shape the present ones have.
C11_ProjectionNeverFails ==
    \A c \in Calls :
        Done(c) => /\ calls[c].out.stage # "project"
                   /\ calls[c].out.raised # "ValidationError"

\* The claims of the token have the types UserClaims declares.
WellTyped(token) ==
    /\ token.aud.shape # "list"
    /\ token.roles.shape # "null"
    /\ token.groups.shape # "null"

\* The User of a call that ended well follows the token's claims, `email`
\* being the address expected of the projection.
FieldsFollow(c, email) ==
    LET t == calls[c].token
        u == calls[c].out.user
    IN  /\ calls[c].out.status = 200
        /\ u.id = (IF t.oid = Absent THEN "unknown" ELSE t.oid)
        /\ u.email = email
        /\ u.tenant_id = (IF t.tid = Absent THEN "unknown" ELSE t.tid)
        /\ u.roles = t.roles.items
        /\ u.groups = t.groups.items
        /\ u.issued_at.day * 86400 + u.issued_at.second
             = (IF t.iat = NoExp THEN 0 ELSE t.iat)
        /\ u.expires_at.day * 86400 + u.expires_at.second
             = (IF t.exp = NoExp THEN 0 ELSE t.exp)
        /\ u.issued_at.second \in 0..86399
        /\ u.expires_at.second \in 0..86399

Projected(c) ==
    Done(c) /\ calls[c].token.form = "ok" /\ WellTyped(calls[c].token)

\* C12 as stated: the projected User's fields follow the claims: id is oid or
\* 'unknown'; email is the email claim when the token carries one, else
\* preferred_username, else ''; tenant_id is tid or 'unknown'; roles and groups
\* are the claim lists or empty; issued_at and expires_at are iat and exp
\* seconds after the epoch, or the epoch.
C12_EmailClaimWins ==
    \A c \in Calls :
        Projected(c)
          => FieldsFollow(c, IF calls[c].token.email # Absent
                             THEN calls[c].token.email
                             ELSE IF calls[c].token.preferred_username # Absent
                             THEN calls[c].token.preferred_username ELSE "")

\* C12, amended: as above, but an email claim that is the empty string counts
\* as absent: the address is then preferred_username, else ''.
C12_UserFieldsFollowClaims ==
    \A c \in Calls :
        Projected(c)
          => FieldsFollow(c, IF calls[c].token.email \notin {Absent, ""}
                             THEN calls[c].token.email
                             ELSE IF calls[c].token.preferred_username # Absent
                             THEN calls[c].token.preferred_username ELSE "")

\* C12's case: a User projected from claims without oid, tid, groups and exp,
\* with an empty email, preferred_username, roles and an iat beyond the first
\* day.
C12_Witness ==
    \E c \in Calls :
        /\ Done(c) /\ calls[c].out.status = 200
        /\ calls[c].token.oid = Absent /\ calls[c].token.email = ""
        /\ calls[c].token.tid = Absent /\ calls[c].token.exp = NoExp
        /\ calls[c].token.preferred_username = "a@corp"
        /\ calls[c].token.roles = StrList(<<"admin">>)
        /\ calls[c].token.iat = 86400 + Now
        /\ calls[c].out.user.email = "a@corp"
        /\ calls[c].out.user.issued_at = [day |-> 1, second |-> Now]

\* A call starts in this step in production mode with a token whose header
\* names a kid the cache holds.
StartsOnCachedKid(c) ==
    /\ calls[c].pc = "idle" /\ calls'[c].pc # "idle"
    /\ ~skip_token_verification
    /\ calls'[c].token.form = "ok"
    /\ calls'[c].token.kid \in DOMAIN jwks_cache

KeyNotFound(out) == out.stage = "key" /\ out.http = 401

\* C13: a call whose kid is already in the cache resolves the key without a
\* request to the key-set endpoint and without changing the cache: it runs to
\* its end in one step, with no fetch, and its lookup finds the key.
C13_CacheHitNoFetch ==
    [][ \A c \in Calls :
          StartsOnCachedKid(c)
            => /\ calls'[c].pc = "done"
               /\ calls'[c].fetches = 0
               /\ ~calls'[c].miss
               /\ ~KeyNotFound(calls'[c].out)
               /\ calls'[c].out.stage \notin {"credentials", "header", "fetch"}
               /\ jwks_cache' = jwks_cache ]_vars

\* C13's case: the cache holds k1 and k2, and a call on a k1 token has ended
\* past the key lookup without fetching.
C13_Witness ==
    \E c \in Calls :
        /\ Done(c) /\ ~skip_token_verification
        /\ DOMAIN jwks_cache = {"k1", "k2"}
        /\ calls[c].token.form = "ok" /\ calls[c].token.kid = "k1"
        /\ calls[c].fetches = 0
        /\ calls[c].out.stage \notin {"credentials", "header", "fetch", "key"}

\* Call c is suspended in get_jwks.
Suspended(c) == calls[c].pc \in {"fetching", "closing"}

\* Call c has ended with a User or with an HTTPException of status 401 or 500.
Ended(c) ==
    /\ Done(c)
    /\ \/ calls[c].out.status = 200 /\ calls[c].out.raised = ""
       \/ calls[c].out.status \in {401, 500} /\ calls[c].out.raised # ""

\* C14: every call terminates: whatever the other calls do and whether the
\* key-set endpoint answers, fails or times out, a suspended call eventually
\* ends, and a call that is over has ended with a User or with a 401 or 500
\* failure.
C14_EveryCallEnds ==
    \A c \in Calls :
        /\ [](Done(c) => Ended(c))
        /\ Suspended(c) ~> Ended(c)

\* C14's case: one call has ended on a fetch that timed out, another after its
\* fetch was answered.
C14_Witness ==
    \E c, d \in Calls :
        /\ Ended(c) /\ calls[c].fetches = 1 /\ calls[c].out.raised = "ReadTimeout"
        /\ Ended(d) /\ calls[d].fetches = 1 /\ calls[d].out.stage # "fetch"

\* The responses whose keys are all indexed by the write of lines 34-37.
Indexable == { p \in DOMAIN Payloads :
                 /\ Payloads[p].shape = "object"
                 /\ IndexKeys(EmptyCache, Payloads[p].keys, 1).ok }

\* The cache contents that complete writes lead to, starting from S.
RECURSIVE WrittenFrom(_)
WrittenFrom(S) ==
    LET T == S \cup { IndexKeys(cache, Payloads[p].keys, 1).cache :
                        cache \in S, p \in Indexable }
    IN  IF T = S THEN S ELSE WrittenFrom(T)

WholeCaches == WrittenFrom({EmptyCache})

\* Call c looks its token's kid up in the cache in this step (line 56).
LooksUp(c) ==
    /\ Completes(c) /\ ~skip_token_verification
    /\ calls'[c].out.stage \notin {"credentials", "fetch"}
    /\ calls'[c].token.form = "ok"
    /\ calls'[c].token.kid \notin {Absent, ""}

\* C15: no call reads a partially written key set: the cache a call looks its
\* kid up in is the empty cache of the start or the content left by complete
\* kid-indexing writes of fetched responses.
C15_NoPartialKeySetRead ==
    [][ \A c \in Calls : LooksUp(c) => jwks_cache \in WholeCaches ]_vars

\* The cache holds an entry whose key material does not convert, under a kid
\* other than the token's.
OtherEntryUnconvertible(token, jwks) ==
    \E k \in DOMAIN jwks : k # token.kid /\ jwks[k].mat = "unconvertible"

\* C16: an entry whose key material cannot be converted affects only tokens
\* naming its kid: every entry of a response that holds one is indexed, and a
\* token that names another entry and passes every check under that entry's
\* key is accepted.
C16_BadEntryIsLocal ==
    [][ \A c \in Calls :
          /\ (FetchSucceeds(c) /\ calls'[c].resp \in Indexable)
               => \A i \in DOMAIN Payloads[calls'[c].resp].keys :
                    LET key == Payloads[calls'[c].resp].keys[i]
                    IN  key.kid \notin {Absent, ""}
                          => key.kid \in DOMAIN jwks_cache'
          /\ ( /\ Completes(c) /\ ~skip_token_verification
               /\ calls'[c].out.stage # "fetch"
               /\ OtherEntryUnconvertible(calls'[c].token, jwks_cache')
               /\ PassesEveryCheck(calls'[c].token, jwks_cache')
               /\ WellTyped(calls'[c].token) )
               => calls'[c].out.status = 200 ]_vars

\* C17: every entry of the cache is indexed under a non-empty kid that is the
\* entry's own; entries fetched without a kid or with an empty one are not in
\* the cache.
C17_CacheIndexedByOwnKid ==
    \A k \in DOMAIN jwks_cache :
        /\ k \notin {Absent, ""}
        /\ jwks_cache[k].shape = "dict"
        /\ jwks_cache[k].kid = k

\* C17's case: a response with an entry without kid, an entry with an empty
\* kid and an entry k1 has been written into the cache, which holds k1 alone.
C17_Witness ==
    \E c \in Calls :
        /\ calls[c].pc = "closing"
        /\ \E i, j \in DOMAIN Payloads[calls[c].resp].keys :
              /\ Payloads[calls[c].resp].keys[i].kid = Absent
              /\ Payloads[calls[c].resp].keys[j].kid = ""
        /\ DOMAIN jwks_cache = {"k1"}

\* C18: once DELETE /chat/history has answered 'Chat history cleared' for a
\* user, and until a chat of that user is stored again, the user has no
\* thread in user_threads and the user's history is the empty list.
C18_ClearedHistoryIsEmpty ==
    (response.op = "clear" /\ response.status = 200)
      => /\ response.user \notin DOMAIN user_threads
         /\ user_threads = clear_history(user_threads, response.user)
         /\ get_history(user_threads, response.user) = << >>

\* No GET of the key set is awaiting its answer.
NoFetchInFlight == \A c \in Calls : calls[c].pc # "fetching"

\* C19: a fetch is started only by a call that found the cache empty; once the
\* cache holds a key and no fetch is in flight, no step starts a fetch or
\* changes the cache, so the resolvable kids stay as they are.
C19_FetchOnlyOnEmptyCache ==
    [][ /\ \A c \in Calls :
             (calls[c].pc # "fetching" /\ calls'[c].pc = "fetching")
               => /\ DOMAIN jwks_cache = {}
                  /\ calls[c].pc = "idle"
        /\ (DOMAIN jwks_cache # {} /\ NoFetchInFlight)
             => /\ jwks_cache' = jwks_cache
                /\ \A c \in Calls :
                     /\ calls'[c].pc # "fetching"
                     /\ calls'[c].fetches <= calls[c].fetches ]_vars

\* C19's case: the cache holds k2 alone, no fetch is in flight, and a call on
\* a k1 token has ended on 'key not found' without fetching.
C19_Witness ==
    /\ DOMAIN jwks_cache = {"k2"}
    /\ NoFetchInFlight
    /\ \E c \in Calls :
         /\ Done(c) /\ calls[c].token.kid = "k1"
         /\ calls[c].fetches = 0
         /\ KeyNotFound(calls[c].out)

\* C20: in development mode no call fetches the key set or touches the cache:
\* the cache stays as it was at the start (empty), no call has issued a GET
\* and none is suspended in get_jwks, whether calls succeed or fail.
C20_DevModeLeavesCacheAlone ==
    skip_token_verification
      => /\ jwks_cache = EmptyCache
         /\ \A c \in Calls :
              /\ calls[c].fetches = 0
              /\ calls[c].pc \in {"idle", "done"}
              /\ ~calls[c].miss

\* C20's case: in development mode one call has returned a User and another
\* has failed.
C20_Witness ==
    /\ skip_token_verification
    /\ \E c, d \in Calls :
         /\ Done(c) /\ calls[c].out.status = 200
         /\ Done(d) /\ calls[d].out.status = 500 /\ calls[d].token.form = "ok"

====
